---- MODULE Spec2Model ----
(***************************************************************************)
(* Model of src/mint.py: the modular integer type `mint`, its operand      *)
(* checking decorator `_check_value`, its arithmetic, relational and       *)
(* conversion methods, and the class-wide int-to-mint conversion flag.     *)
(*                                                                         *)
(* A Python exception is modelled by the status of an outcome record.  The *)
(* status names the raise site:                                            *)
(*   InvalidValue         ValueError        line 38                        *)
(*   InvalidModulus       ValueError        lines 41, 44                   *)
(*   InvalidPolicy        ValueError        line 101                       *)
(*   IncompatibleModulus  ValueError        line 189                       *)
(*   ConversionDisabled   TypeError         line 205                       *)
(*   NotInvertible        ValueError        line 285 (and builtin pow)     *)
(*   NegativeDivisor      ValueError        line 331                       *)
(*   DivideByZero         ZeroDivisionError line 333                       *)
(*   NotDivisible         ValueError        line 335                       *)
(*   InvalidBase          ValueError        line 513 (and builtin int)     *)
(*   NotImplemented       the NotImplemented sentinel, line 208            *)
(***************************************************************************)
EXTENDS Integers, FiniteSets, Sequences, TLC

VARIABLES
    _DISABLE_INT2MINT_CONVERSION, \* the class attribute of line 14
    heap,                         \* the mint instances that exist
    last                          \* the last call made and its outcome

vars == <<_DISABLE_INT2MINT_CONVERSION, heap, last>>

(***************************************************************************)
(* Bounds of the model.                                                    *)
(***************************************************************************)
\* moduli a caller passes to mint(), and the largest modulus of an instance
\* that is kept alive for later calls
MaxMod == 4
\* the number of instances kept alive at once
MaxHeap == 2
\* plain integer operands range over -MaxInt .. MaxInt
MaxInt == 2

(***************************************************************************)
(* Values.  A Python value passed to a method is a record: an int, a bool, *)
(* a float (n holds twice the float, so halves are exact), a mint          *)
(* instance, or a value of any other type.                                 *)
(***************************************************************************)
NoEnt == [value |-> 0, mod |-> 0, gcd |-> 0]

IntVal(k) == [kind |-> "int", n |-> k, ent |-> NoEnt]

BoolVal(b) == [kind |-> "bool", n |-> IF b THEN 1 ELSE 0, ent |-> NoEnt]

FloatVal(twice) == [kind |-> "float", n |-> twice, ent |-> NoEnt]

MintVal(e) == [kind |-> "mint", n |-> 0, ent |-> e]

OtherVal == [kind |-> "other", n |-> 0, ent |-> NoEnt]

NoVal == [kind |-> "none", n |-> 0, ent |-> NoEnt]

\* isinstance(value, int): a bool is an int in Python
IsInt(value) == value.kind \in {"int", "bool"}

(***************************************************************************)
(* Outcomes of a call: a returned value, a raised exception, or the        *)
(* NotImplemented sentinel.                                                *)
(***************************************************************************)
Returns(v) == [status |-> "ok", val |-> v]

Raises(kind) == [status |-> kind, val |-> NoVal]

NotImplemented == [status |-> "NotImplemented", val |-> NoVal]

(***************************************************************************)
(* Builtins the methods call.                                              *)
(***************************************************************************)
\* math.gcd on non-negative arguments (Euclid)
RECURSIVE gcd(_, _)
gcd(a, b) == IF b = 0 THEN a ELSE gcd(b, a % b)

\* int(value) of a float: truncation toward zero
int_of_float(twice) ==
    IF twice >= 0 THEN twice \div 2 ELSE -((-twice) \div 2)

\* the extended Euclid algorithm: <<g, x, y>> with a*x + b*y = g
RECURSIVE ext_gcd(_, _)
ext_gcd(a, b) ==
    IF b = 0 THEN <<a, 1, 0>>
    ELSE LET r == ext_gcd(b, a % b)
         IN  <<r[1], r[3], r[2] - (a \div b) * r[3]>>

\* base ** exp % mod for exp >= 0, by squaring
RECURSIVE pow_nonneg(_, _, _)
pow_nonneg(base, exp, mod) ==
    IF exp = 0 THEN 1 % mod
    ELSE IF exp % 2 = 0 THEN pow_nonneg((base * base) % mod, exp \div 2, mod)
    ELSE (base * pow_nonneg(base, exp - 1, mod)) % mod

\* the builtin pow(base, exp, mod), mod >= 2: a negative exponent takes the
\* modular inverse of the base first and raises ValueError when there is none
pow(base, exp, mod) ==
    IF exp >= 0 THEN Returns(IntVal(pow_nonneg(base % mod, exp, mod)))
    ELSE LET r == ext_gcd(base % mod, mod)
         IN  IF r[1] # 1 THEN Raises("NotInvertible")
             ELSE Returns(IntVal(pow_nonneg(r[2] % mod, -exp, mod)))

\* ~n on a Python int
bit_invert(n) == -n - 1

\* int(str(n), base) for n >= 0: the decimal digits of n read in `base`;
\* -1 stands for the ValueError raised on a digit that `base` does not have
RECURSIVE int_of_str(_, _)
int_of_str(n, base) ==
    IF n < 10 THEN (IF n >= base THEN -1 ELSE n)
    ELSE LET rest == int_of_str(n \div 10, base)
         IN  IF rest = -1 \/ (n % 10) >= base THEN -1
             ELSE rest * base + (n % 10)

(***************************************************************************)
(* mint.__init__ (lines 20-49).                                            *)
(***************************************************************************)
\* fault variant: the value is stored as given, not reduced
__init__Unreduced(value, mod) ==
    IF ~IsInt(value) THEN Raises("InvalidValue")
    ELSE IF ~IsInt(mod) THEN Raises("InvalidModulus")
    ELSE IF mod.n <= 1 THEN Raises("InvalidModulus")
    ELSE Returns(MintVal([value |-> value.n,
                          mod   |-> mod.n,
                          gcd   |-> gcd(value.n % mod.n, mod.n)]))

__init__(value, mod) ==
    IF ~IsInt(value) THEN Raises("InvalidValue")
    ELSE IF ~IsInt(mod) THEN Raises("InvalidModulus")
    ELSE IF mod.n <= 1 THEN Raises("InvalidModulus")
    ELSE Returns(MintVal([value |-> value.n % mod.n,
                          mod   |-> mod.n,
                          gcd   |-> gcd(value.n % mod.n, mod.n)]))

\* self.__class__(value, mod) with two Python ints
mint(value, mod) == __init__(IntVal(value), IntVal(mod))

(***************************************************************************)
(* The method bodies, as the decorator calls them: `value` is a mint of    *)
(* the same modulus or a plain int.  Reading value.value of a plain int    *)
(* raises AttributeError.                                                  *)
(***************************************************************************)
__neg__(self) == mint(-self.value, self.mod)

__invert__(self) == mint(bit_invert(self.value), self.mod)

__add__(self, value) ==
    IF value.kind # "mint" THEN Raises("AttributeError")
    ELSE mint(self.value + value.ent.value, self.mod)

__radd__(self, value) ==
    IF value.kind # "mint" THEN Raises("AttributeError")
    ELSE mint(value.ent.value + self.value, self.mod)

__sub__(self, value) ==
    IF value.kind # "mint" THEN Raises("AttributeError")
    ELSE mint(self.value - value.ent.value, self.mod)

__rsub__(self, value) ==
    IF value.kind # "mint" THEN Raises("AttributeError")
    ELSE mint(value.ent.value - self.value, self.mod)

\* fault variant: a plain integer factor leaves the modulus as it is
__mul__FixedModulus(self, value) ==
    IF IsInt(value)
    THEN mint(self.value * value.n, self.mod)
    ELSE IF value.kind # "mint" THEN Raises("AttributeError")
    ELSE mint(self.value * value.ent.value, self.mod)

__mul__(self, value) ==
    IF IsInt(value)
    THEN IF value.n = 0 THEN mint(0, self.mod)
         ELSE mint(self.value * value.n, self.mod * value.n)
    ELSE IF value.kind # "mint" THEN Raises("AttributeError")
    ELSE mint(self.value * value.ent.value, self.mod)

\* fault variant: invertibility is read off the value, not the cached gcd
__pow__ValueCheck(self, value) ==
    IF IsInt(value)
    THEN IF value.n < 0 /\ self.value # 1 THEN Raises("NotInvertible")
         ELSE LET p == pow(self.value, value.n, self.mod)
              IN  IF p.status # "ok" THEN p ELSE mint(p.val.n, self.mod)
    ELSE IF value.kind # "mint" THEN Raises("AttributeError")
    ELSE LET p == pow(self.value, value.ent.value, self.mod)
         IN  IF p.status # "ok" THEN p ELSE mint(p.val.n, self.mod)

__pow__(self, value) ==
    IF IsInt(value)
    THEN IF value.n < 0 /\ self.gcd # 1 THEN Raises("NotInvertible")
         ELSE LET p == pow(self.value, value.n, self.mod)
              IN  IF p.status # "ok" THEN p ELSE mint(p.val.n, self.mod)
    ELSE IF value.kind # "mint" THEN Raises("AttributeError")
    ELSE LET p == pow(self.value, value.ent.value, self.mod)
         IN  IF p.status # "ok" THEN p ELSE mint(p.val.n, self.mod)

__rpow__(self, value) ==
    IF value.kind # "mint" THEN Raises("AttributeError")
    ELSE LET p == pow(value.ent.value, self.value, self.mod)
         IN  IF p.status # "ok" THEN p ELSE mint(p.val.n, self.mod)

\* fault variant: no divisibility check, the quotient is floored
__truediv__Floor(self, value) ==
    IF ~IsInt(value) /\ value.kind # "mint" THEN Raises("AttributeError")
    ELSE LET divider == IF IsInt(value) THEN value.n ELSE value.ent.value
         IN  IF divider < 0 THEN Raises("NegativeDivisor")
             ELSE IF divider = 0 THEN Raises("DivideByZero")
             ELSE mint(self.value \div divider,
                       self.mod \div gcd(self.mod, divider))

\* fault variant: the modulus is not shrunk
__truediv__KeepModulus(self, value) ==
    IF ~IsInt(value) /\ value.kind # "mint" THEN Raises("AttributeError")
    ELSE LET divider == IF IsInt(value) THEN value.n ELSE value.ent.value
         IN  IF divider < 0 THEN Raises("NegativeDivisor")
             ELSE IF divider = 0 THEN Raises("DivideByZero")
             ELSE IF self.value % divider # 0 THEN Raises("NotDivisible")
             ELSE mint(self.value \div divider, self.mod)

__truediv__(self, value) ==
    IF ~IsInt(value) /\ value.kind # "mint" THEN Raises("AttributeError")
    ELSE LET divider == IF IsInt(value) THEN value.n ELSE value.ent.value
         IN  IF divider < 0 THEN Raises("NegativeDivisor")
             ELSE IF divider = 0 THEN Raises("DivideByZero")
             ELSE IF self.value % divider # 0 THEN Raises("NotDivisible")
             ELSE mint(self.value \div divider,
                       self.mod \div gcd(self.mod, divider))

__lt__(self, value) ==
    IF value.kind # "mint" THEN Raises("AttributeError")
    ELSE Returns(BoolVal(self.value < value.ent.value))

__le__(self, value) ==
    IF value.kind # "mint" THEN Raises("AttributeError")
    ELSE Returns(BoolVal(self.value <= value.ent.value))

__gt__(self, value) ==
    IF value.kind # "mint" THEN Raises("AttributeError")
    ELSE Returns(BoolVal(self.value > value.ent.value))

__ge__(self, value) ==
    IF value.kind # "mint" THEN Raises("AttributeError")
    ELSE Returns(BoolVal(self.value >= value.ent.value))

\* the decorated function, by method.__name__
method(name, self, value) ==
    CASE name = "__add__"     -> __add__(self, value)
      [] name = "__radd__"    -> __radd__(self, value)
      [] name = "__sub__"     -> __sub__(self, value)
      [] name = "__rsub__"    -> __rsub__(self, value)
      [] name = "__mul__"     -> __mul__(self, value)
      [] name = "__pow__"     -> __pow__(self, value)
      [] name = "__rpow__"    -> __rpow__(self, value)
      [] name = "__truediv__" -> __truediv__(self, value)
      [] name = "__lt__"      -> __lt__(self, value)
      [] name = "__le__"      -> __le__(self, value)
      [] name = "__gt__"      -> __gt__(self, value)
      [] name = "__ge__"      -> __ge__(self, value)

(***************************************************************************)
(* mint._check_value.wrapper (lines 157-208), called with one positional   *)
(* argument.  `disabled` is mint._DISABLE_INT2MINT_CONVERSION as read at   *)
(* line 204.                                                               *)
(***************************************************************************)
\* fault variant: "__pow__" is missing from the list
PlainIntMethodsNoPow ==
    {"__mul__", "__rmul__", "__floordiv__", "__truediv__",
     "__rfloordiv__", "__rtruediv__"}

\* the method names of lines 200-202, handed a plain int as it is
PlainIntMethods ==
    {"__mul__", "__rmul__", "__pow__", "__floordiv__", "__truediv__",
     "__rfloordiv__", "__rtruediv__"}

\* lines 195-198: a float, else a bool, becomes int(value)
narrow(value) ==
    IF value.kind = "float" THEN IntVal(int_of_float(value.n))
    ELSE IF value.kind = "bool" THEN IntVal(value.n)
    ELSE value

\* fault variant: a plain int is promoted whatever the flag says
wrapperNoGate(name, self, value, disabled) ==
    IF value.kind = "mint"
    THEN IF self.mod # value.ent.mod THEN Raises("IncompatibleModulus")
         ELSE method(name, self, value)
    ELSE LET v == narrow(value)
         IN  IF IsInt(v)
             THEN IF name \in PlainIntMethods THEN method(name, self, v)
                  ELSE LET p == mint(v.n, self.mod)
                       IN  IF p.status # "ok" THEN p
                           ELSE method(name, self, p.val)
             ELSE NotImplemented

\* fault variant: the moduli of two mints are not compared
wrapperNoModulusCheck(name, self, value, disabled) ==
    IF value.kind = "mint"
    THEN method(name, self, value)
    ELSE LET v == narrow(value)
         IN  IF IsInt(v)
             THEN IF name \in PlainIntMethods THEN method(name, self, v)
                  ELSE IF disabled THEN Raises("ConversionDisabled")
                  ELSE LET p == mint(v.n, self.mod)
                       IN  IF p.status # "ok" THEN p
                           ELSE method(name, self, p.val)
             ELSE NotImplemented

wrapper(name, self, value, disabled) ==
    IF value.kind = "mint"
    THEN IF self.mod # value.ent.mod THEN Raises("IncompatibleModulus")
         ELSE method(name, self, value)
    ELSE LET v == narrow(value)
         IN  IF IsInt(v)
             THEN IF name \in PlainIntMethods THEN method(name, self, v)
                  ELSE IF disabled THEN Raises("ConversionDisabled")
                  ELSE LET p == mint(v.n, self.mod)
                       IN  IF p.status # "ok" THEN p
                           ELSE method(name, self, p.val)
             ELSE NotImplemented

(***************************************************************************)
(* The methods that are not decorated.                                     *)
(***************************************************************************)
__rmul__(self, value, disabled) == wrapper("__mul__", self, value, disabled)

__floordiv__(self, value, disabled) ==
    wrapper("__truediv__", self, value, disabled)

\* fault variant: two mints are compared by value alone
__eq__ValueOnly(self, value, disabled) ==
    IF value.kind = "mint"
    THEN Returns(BoolVal(self.value = value.ent.value))
    ELSE IF IsInt(value)
    THEN Returns(BoolVal(self.value = value.n % self.mod /\ ~disabled))
    ELSE Returns(BoolVal(FALSE))

__eq__(self, value, disabled) ==
    IF value.kind = "mint"
    THEN Returns(BoolVal(self.value = value.ent.value
                         /\ self.mod = value.ent.mod))
    ELSE IF IsInt(value)
    THEN Returns(BoolVal(self.value = value.n % self.mod /\ ~disabled))
    ELSE Returns(BoolVal(FALSE))

__ne__(self, value, disabled) ==
    LET e == __eq__(self, value, disabled)
    IN  IF e.status # "ok" THEN e ELSE Returns(BoolVal(e.val.n = 0))

__float__(self) == Returns(FloatVal(2 * self.value))

__int__(self) == Returns(IntVal(self.value))

to_int(self, base) ==
    IF ~(2 <= base /\ base <= 36) THEN Raises("InvalidBase")
    ELSE LET r == int_of_str(self.value, base)
         IN  IF r = -1 THEN Raises("InvalidBase") ELSE Returns(IntVal(r))

\* what self.<name>(value) does, for every binary method of the class
call(name, self, value, disabled) ==
    CASE name = "__rmul__"     -> __rmul__(self, value, disabled)
      [] name = "__floordiv__" -> __floordiv__(self, value, disabled)
      [] name = "__eq__"       -> __eq__(self, value, disabled)
      [] name = "__ne__"       -> __ne__(self, value, disabled)
      [] OTHER                 -> wrapper(name, self, value, disabled)

(***************************************************************************)
(* The conversion flag (lines 79-122).  Each operator gives the flag's     *)
(* value after the call.                                                   *)
(***************************************************************************)
int2mint(disabled) == Returns(BoolVal(~disabled))

\* lines 96-101: an int equal to 1 or 0 becomes a bool; a bool is stored
\* negated; anything else raises and assigns nothing
set_int2mint(value, disabled) ==
    IF IsInt(value) /\ (value.n = 1 \/ value.n = 0)
    THEN [flag |-> ~(value.n = 1), out |-> Returns(NoVal)]
    ELSE [flag |-> disabled, out |-> Raises("InvalidPolicy")]

\* fault variant: the flag is set, not negated
change_int2mintStuck(disabled) == TRUE

change_int2mint(disabled) == ~disabled

activate_int2mint(disabled) == FALSE

disable_int2mint(disabled) == TRUE

(***************************************************************************)
(* The state machine.  A step is one call on the class or on an instance   *)
(* that exists, made when the caller holds no outcome (last = NoCall), or  *)
(* the caller letting go of the outcome it holds.  A mint a call returns   *)
(* is a new instance; it is kept for later calls while there is room.      *)
(***************************************************************************)
NoCall ==
    [op |-> "none", self |-> NoEnt, arg |-> NoVal, arg2 |-> NoVal,
     out |-> Returns(NoVal)]

Init ==
    /\ _DISABLE_INT2MINT_CONVERSION = FALSE
    /\ heap = {}
    /\ last = NoCall

\* the instances after a call with outcome `out`: the instances before it,
\* and the one `out` returns (lines 46-49 build it; no other one is touched)
Retain(h, out) ==
    IF /\ out.status = "ok"
       /\ out.val.kind = "mint"
       /\ out.val.ent.mod <= MaxMod
       /\ Cardinality(h \cup {out.val.ent}) <= MaxHeap
    THEN h \cup {out.val.ent}
    ELSE h

\* a call that leaves the flag alone
Do(name, self, value, arg2, out) ==
    /\ last' = [op |-> name, self |-> self, arg |-> value, arg2 |-> arg2,
                out |-> out]
    /\ heap' = Retain(heap, out)
    /\ UNCHANGED _DISABLE_INT2MINT_CONVERSION

\* a call on the class that assigns the flag
DoPolicy(name, value, flag, out) ==
    /\ last' = [op |-> name, self |-> NoEnt, arg |-> value, arg2 |-> NoVal,
                out |-> out]
    /\ _DISABLE_INT2MINT_CONVERSION' = flag
    /\ UNCHANGED heap

\* the arguments a caller passes to mint(value, mod)
ConstructValues ==
    {IntVal(k) : k \in (-MaxMod)..(MaxMod + 1)}
        \cup {BoolVal(TRUE), FloatVal(3)}

ConstructMods ==
    {IntVal(m) : m \in (-1)..MaxMod} \cup {BoolVal(TRUE), FloatVal(4)}

\* the second operand of a binary method: an instance, a plain int, a bool,
\* the floats -1.5 and 2.5, a value of another type
Operands ==
    {MintVal(e) : e \in heap}
        \cup {IntVal(k) : k \in (-MaxInt)..MaxInt}
        \cup {BoolVal(TRUE), FloatVal(-3), FloatVal(5), OtherVal}

\* the arguments a caller passes to set_int2mint
PolicyValues ==
    {BoolVal(TRUE), BoolVal(FALSE), IntVal(0), IntVal(1), IntVal(2),
     FloatVal(2), OtherVal}

\* the bases a caller passes to to_int
Bases == {1, 2, 10, 36, 37}

\* self.<name>(value) on an instance that exists
Binary(name, self, value) ==
    Do(name, self, value, NoVal,
       call(name, self, value, _DISABLE_INT2MINT_CONVERSION))

Construct ==
    /\ last = NoCall
    /\ \E value \in ConstructValues, mod \in ConstructMods :
           Do("__init__", NoEnt, value, mod, __init__(value, mod))

Neg ==
    /\ last = NoCall
    /\ \E self \in heap : Do("__neg__", self, NoVal, NoVal, __neg__(self))

Invert ==
    /\ last = NoCall
    /\ \E self \in heap :
           Do("__invert__", self, NoVal, NoVal, __invert__(self))

Add ==
    /\ last = NoCall
    /\ \E self \in heap, value \in Operands : Binary("__add__", self, value)

Radd ==
    /\ last = NoCall
    /\ \E self \in heap, value \in Operands : Binary("__radd__", self, value)

Sub ==
    /\ last = NoCall
    /\ \E self \in heap, value \in Operands : Binary("__sub__", self, value)

Rsub ==
    /\ last = NoCall
    /\ \E self \in heap, value \in Operands : Binary("__rsub__", self, value)

Mul ==
    /\ last = NoCall
    /\ \E self \in heap, value \in Operands : Binary("__mul__", self, value)

Rmul ==
    /\ last = NoCall
    /\ \E self \in heap, value \in Operands : Binary("__rmul__", self, value)

Pow ==
    /\ last = NoCall
    /\ \E self \in heap, value \in Operands : Binary("__pow__", self, value)

Rpow ==
    /\ last = NoCall
    /\ \E self \in heap, value \in Operands : Binary("__rpow__", self, value)

Truediv ==
    /\ last = NoCall
    /\ \E self \in heap, value \in Operands : Binary("__truediv__", self, value)

Floordiv ==
    /\ last = NoCall
    /\ \E self \in heap, value \in Operands : Binary("__floordiv__", self, value)

Eq ==
    /\ last = NoCall
    /\ \E self \in heap, value \in Operands : Binary("__eq__", self, value)

Ne ==
    /\ last = NoCall
    /\ \E self \in heap, value \in Operands : Binary("__ne__", self, value)

Lt ==
    /\ last = NoCall
    /\ \E self \in heap, value \in Operands : Binary("__lt__", self, value)

Le ==
    /\ last = NoCall
    /\ \E self \in heap, value \in Operands : Binary("__le__", self, value)

Gt ==
    /\ last = NoCall
    /\ \E self \in heap, value \in Operands : Binary("__gt__", self, value)

Ge ==
    /\ last = NoCall
    /\ \E self \in heap, value \in Operands : Binary("__ge__", self, value)

FloatOf ==
    /\ last = NoCall
    /\ \E self \in heap :
           Do("__float__", self, NoVal, NoVal, __float__(self))

IntOf ==
    /\ last = NoCall
    /\ \E self \in heap : Do("__int__", self, NoVal, NoVal, __int__(self))

ToInt ==
    /\ last = NoCall
    /\ \E self \in heap, base \in Bases :
           Do("to_int", self, IntVal(base), NoVal, to_int(self, base))

GetInt2mint ==
    /\ last = NoCall
    /\ \E self \in heap :
           Do("int2mint", self, NoVal, NoVal,
              int2mint(_DISABLE_INT2MINT_CONVERSION))

SetInt2mint ==
    /\ last = NoCall
    /\ \E value \in PolicyValues :
           LET r == set_int2mint(value, _DISABLE_INT2MINT_CONVERSION)
           IN  DoPolicy("set_int2mint", value, r.flag, r.out)

ChangeInt2mint ==
    /\ last = NoCall
    /\ DoPolicy("change_int2mint", NoVal,
                change_int2mint(_DISABLE_INT2MINT_CONVERSION),
                Returns(NoVal))

ActivateInt2mint ==
    /\ last = NoCall
    /\ DoPolicy("activate_int2mint", NoVal,
                activate_int2mint(_DISABLE_INT2MINT_CONVERSION),
                Returns(NoVal))

DisableInt2mint ==
    /\ last = NoCall
    /\ DoPolicy("disable_int2mint", NoVal,
                disable_int2mint(_DISABLE_INT2MINT_CONVERSION),
                Returns(NoVal))

\* the caller is done with the outcome of its last call and goes on
Forget ==
    /\ last # NoCall
    /\ last' = NoCall
    /\ UNCHANGED <<_DISABLE_INT2MINT_CONVERSION, heap>>

Next ==
    \/ Forget
    \/ Construct
    \/ Neg
    \/ Invert
    \/ Add
    \/ Radd
    \/ Sub
    \/ Rsub
    \/ Mul
    \/ Rmul
    \/ Pow
    \/ Rpow
    \/ Truediv
    \/ Floordiv
    \/ Eq
    \/ Ne
    \/ Lt
    \/ Le
    \/ Gt
    \/ Ge
    \/ FloatOf
    \/ IntOf
    \/ ToInt
    \/ GetInt2mint
    \/ SetInt2mint
    \/ ChangeInt2mint
    \/ ActivateInt2mint
    \/ DisableInt2mint

Spec == Init /\ [][Next]_vars

(***************************************************************************)
(* Vocabulary of the properties, stated without the code's algorithms.     *)
(***************************************************************************)
\* g is the greatest common divisor of a >= 0 and b >= 1
IsGcd(g, a, b) ==
    /\ g \in 1..b
    /\ a % g = 0
    /\ b % g = 0
    /\ \A d \in 1..b : (a % d = 0 /\ b % d = 0) => d <= g

GcdOf(a, b) == CHOOSE g \in 1..b : IsGcd(g, a, b)

\* the entity of value v and modulus m
Entity(v, m) == [value |-> v, mod |-> m, gcd |-> GcdOf(v, m)]

WellFormed(e) ==
    /\ e.mod >= 2
    /\ 0 <= e.value
    /\ e.value < e.mod
    /\ IsGcd(e.gcd, e.value, e.mod)

\* an operand that is a plain integer, or a float or boolean narrowed to one
PlainInt(value) == value.kind \in {"int", "bool", "float"}

\* the plain integer of such an operand: floats truncate toward zero
AsInt(value) ==
    IF value.kind # "float" THEN value.n
    ELSE IF value.n >= 0 THEN value.n \div 2
    ELSE -((-value.n) \div 2)

RECURSIVE Power(_, _)
Power(b, e) == IF e = 0 THEN 1 ELSE b * Power(b, e - 1)

ReturnsEntity(out) == out.status = "ok" /\ out.val.kind = "mint"

DivisionOps == {"__truediv__", "__floordiv__"}

MultiplyOps == {"__mul__", "__rmul__"}

(***************************************************************************)
(* C1.  Every entity that exists, and every entity a call returns, has     *)
(* modulus >= 2, 0 <= value < modulus and gcd == gcd(value, modulus);      *)
(* mint(v, m) with m >= 2 stores the representative of v mod m, also for   *)
(* a negative or out-of-range v, and fails for m < 2; a multiplication or  *)
(* division whose result would have a modulus < 2 fails.                   *)
(***************************************************************************)
C1_EntityInvariant ==
    /\ \A e \in heap : WellFormed(e)
    /\ ReturnsEntity(last.out) => WellFormed(last.out.val.ent)
    /\ (last.op = "__init__" /\ last.arg.kind = "int"
            /\ last.arg2.kind = "int") =>
           IF last.arg2.n >= 2
           THEN /\ ReturnsEntity(last.out)
                /\ last.out.val.ent.mod = last.arg2.n
                /\ (last.arg.n - last.out.val.ent.value) % last.arg2.n = 0
           ELSE last.out = Raises("InvalidModulus")
    /\ (last.op \in MultiplyOps /\ PlainInt(last.arg)
            /\ AsInt(last.arg) # 0
            /\ last.self.mod * AsInt(last.arg) < 2) =>
           last.out = Raises("InvalidModulus")
    /\ (last.op \in DivisionOps /\ PlainInt(last.arg)
            /\ AsInt(last.arg) > 0
            /\ last.self.value % AsInt(last.arg) = 0
            /\ last.self.mod \div GcdOf(last.self.mod, AsInt(last.arg)) < 2)
           => last.out = Raises("InvalidModulus")

\* mint(v, m) was called with a negative v and stored its representative
C1_Witness ==
    /\ last.op = "__init__"
    /\ last.arg.kind = "int"
    /\ last.arg.n < 0
    /\ ReturnsEntity(last.out)
    /\ last.out.val.ent.value > 0
    /\ last.out.val.ent \in heap

(***************************************************************************)
(* C2.  Division.                                                          *)
(***************************************************************************)
\* the divisor of a division of `self` by `value`
Divisor(value) == IF PlainInt(value) THEN AsInt(value) ELSE value.ent.value

Divisible(self, value) ==
    \/ PlainInt(value)
    \/ value.kind = "mint" /\ value.ent.mod = self.mod

\* the outcome the claim as written gives to v mod m divided by d
DivisionAsClaimed(self, d) ==
    IF d < 0 THEN Raises("NegativeDivisor")
    ELSE IF d = 0 THEN Raises("DivideByZero")
    ELSE IF self.value % d # 0 THEN Raises("NotDivisible")
    ELSE Returns(MintVal(Entity(self.value \div d,
                                self.mod \div GcdOf(self.mod, d))))

\* C2 as written: true division and floor division of (v, m) by d fail with
\* NegativeDivisor if d < 0, DivideByZero if d == 0, NotDivisible if
\* v mod d != 0, and in every other case succeed with value v // d and
\* modulus m // gcd(m, d).
C2_DivisionAsWritten ==
    (last.op \in DivisionOps /\ Divisible(last.self, last.arg)) =>
        last.out = DivisionAsClaimed(last.self, Divisor(last.arg))

\* C2 as amended: true division and floor division of (v, m) by d behave
\* identically: NegativeDivisor if d < 0, DivideByZero if d == 0,
\* NotDivisible if v mod d != 0; otherwise the result is
\* mint(v // d, m // gcd(m, d)), which fails with InvalidModulus when
\* m // gcd(m, d) < 2 (d a multiple of m, so v == 0) and else is the entity
\* of value v // d and modulus m // gcd(m, d).
C2_Division ==
    (last.op \in DivisionOps /\ Divisible(last.self, last.arg)) =>
        LET d == Divisor(last.arg)
        IN  IF /\ d > 0
               /\ last.self.value % d = 0
               /\ last.self.mod \div GcdOf(last.self.mod, d) < 2
            THEN /\ last.out = Raises("InvalidModulus")
                 /\ d % last.self.mod = 0
                 /\ last.self.value = 0
            ELSE last.out = DivisionAsClaimed(last.self, d)

\* a floor division by a plain integer succeeded and shrank the modulus
C2_Witness ==
    /\ last.op = "__floordiv__"
    /\ last.arg.kind = "int"
    /\ ReturnsEntity(last.out)
    /\ last.out.val.ent.mod < last.self.mod
    /\ last.out.val.ent.value > 0

(***************************************************************************)
(* C3.  The modulus of a result: the operand's for addition, subtraction,  *)
(* power and multiplication by a modular operand; m * k for multiplication *)
(* by a plain integer k # 0 and m for k == 0; m // gcd(m, d) for division  *)
(* by d.                                                                   *)
(***************************************************************************)
C3_ModulusTable ==
    ReturnsEntity(last.out) =>
        LET m == last.self.mod
            r == last.out.val.ent.mod
        IN  /\ last.op \in {"__add__", "__radd__", "__sub__", "__rsub__",
                            "__pow__", "__rpow__"} => r = m
            /\ (last.op \in MultiplyOps /\ last.arg.kind = "mint") => r = m
            /\ (last.op \in MultiplyOps /\ PlainInt(last.arg)) =>
                   r = IF AsInt(last.arg) = 0 THEN m ELSE m * AsInt(last.arg)
            /\ last.op \in DivisionOps =>
                   r = m \div GcdOf(m, Divisor(last.arg))

\* a multiplication by a plain integer k >= 2 scaled the modulus
C3_Witness ==
    /\ last.op = "__mul__"
    /\ PlainInt(last.arg)
    /\ AsInt(last.arg) >= 2
    /\ ReturnsEntity(last.out)
    /\ last.out.val.ent.mod = last.self.mod * AsInt(last.arg)
    /\ last.out.val.ent.value > 0

(***************************************************************************)
(* C4.  For every entity a and every positive plain integer k, (a * k) / k *)
(* succeeds and is a: value and modulus are both restored.  Stated in both *)
(* directions: a product a * k that was just computed divides back to a,   *)
(* and a division of an existing entity that is the product a * k of an    *)
(* existing entity a returns a.  mint(7, 10) * 3 is (21, 30), and that     *)
(* divided by 3 is (7, 10).                                                *)
(***************************************************************************)
C4_ScalingRoundTrip ==
    LET flag == _DISABLE_INT2MINT_CONVERSION
    IN  /\ (last.op = "__mul__" /\ PlainInt(last.arg)
                /\ AsInt(last.arg) > 0) =>
               /\ ReturnsEntity(last.out)
               /\ LET q == call("__truediv__", last.out.val.ent, last.arg,
                                flag)
                  IN  /\ q = Returns(MintVal(last.self))
                      /\ call("__eq__", q.val.ent, MintVal(last.self), flag)
                             = Returns(BoolVal(TRUE))
        /\ (last.op = "__truediv__" /\ PlainInt(last.arg)
                /\ AsInt(last.arg) > 0) =>
               \A a \in heap :
                   call("__mul__", a, last.arg, flag)
                           = Returns(MintVal(last.self))
                       => last.out = Returns(MintVal(a))
        /\ heap = {} =>
               LET a == [value |-> 7, mod |-> 10, gcd |-> 1]
                   b == [value |-> 21, mod |-> 30, gcd |-> 3]
               IN  /\ call("__mul__", a, IntVal(3), flag)
                          = Returns(MintVal(b))
                   /\ call("__truediv__", b, IntVal(3), flag)
                          = Returns(MintVal(a))

\* an existing entity a and its product a * k, k >= 2, both exist, and the
\* product was divided by k and gave a
C4_Witness ==
    /\ last.op = "__truediv__"
    /\ last.arg.kind = "int"
    /\ last.arg.n >= 2
    /\ last.self \in heap
    /\ \E a \in heap :
           /\ a.value > 0
           /\ call("__mul__", a, last.arg, _DISABLE_INT2MINT_CONVERSION)
                  = Returns(MintVal(last.self))
           /\ last.out = Returns(MintVal(a))

(***************************************************************************)
(* C5.  For a negative plain-integer exponent e, a ** e fails with         *)
(* NotInvertible iff gcd(a.value, m) # 1; when the gcd is 1 it succeeds    *)
(* with modulus m, and a ** -1 has the value x with (a.value * x) % m = 1. *)
(***************************************************************************)
C5_NegativeExponent ==
    (last.op = "__pow__" /\ PlainInt(last.arg) /\ AsInt(last.arg) < 0) =>
        LET v == last.self.value
            m == last.self.mod
        IN  /\ last.out.status = "NotInvertible" <=> GcdOf(v, m) # 1
            /\ GcdOf(v, m) = 1 =>
                   /\ ReturnsEntity(last.out)
                   /\ last.out.val.ent.mod = m
                   /\ AsInt(last.arg) = -1 =>
                          (v * last.out.val.ent.value) % m = 1

\* a ** -1 succeeded for a value that is not its own representative 1
C5_Witness ==
    /\ last.op = "__pow__"
    /\ last.arg = IntVal(-1)
    /\ last.self.value >= 2
    /\ ReturnsEntity(last.out)

(***************************************************************************)
(* C6.  Addition, reverse addition, subtraction, reverse subtraction and   *)
(* the orderings between an entity (v, m) and a plain integer k: with the  *)
(* conversion disabled the call fails with ConversionDisabled; with it     *)
(* enabled the outcome is that of the same call with the operand           *)
(* mint(k, m): (v + k) mod m, (v - k) mod m, (k - v) mod m, and v compared *)
(* with k mod m.                                                           *)
(***************************************************************************)
GatedOps ==
    {"__add__", "__radd__", "__sub__", "__rsub__",
     "__lt__", "__le__", "__gt__", "__ge__"}

\* the outcome of op on (v, m) and the promoted operand of value w
Promoted(op, v, w, m) ==
    CASE op \in {"__add__", "__radd__"} ->
             Returns(MintVal(Entity((v + w) % m, m)))
      [] op = "__sub__"  -> Returns(MintVal(Entity((v - w) % m, m)))
      [] op = "__rsub__" -> Returns(MintVal(Entity((w - v) % m, m)))
      [] op = "__lt__"   -> Returns(BoolVal(v < w))
      [] op = "__le__"   -> Returns(BoolVal(v <= w))
      [] op = "__gt__"   -> Returns(BoolVal(v > w))
      [] op = "__ge__"   -> Returns(BoolVal(v >= w))

C6_ConversionGate ==
    (last.op \in GatedOps /\ PlainInt(last.arg)) =>
        LET v == last.self.value
            m == last.self.mod
            w == AsInt(last.arg) % m
        IN  IF _DISABLE_INT2MINT_CONVERSION
            THEN last.out = Raises("ConversionDisabled")
            ELSE /\ last.out = Promoted(last.op, v, w, m)
                 /\ last.out = call(last.op, last.self,
                                    MintVal(Entity(w, m)), FALSE)

\* an ordering against a plain integer was refused after the conversion had
\* been disabled
C6_Witness ==
    /\ _DISABLE_INT2MINT_CONVERSION
    /\ last.op = "__lt__"
    /\ last.arg.kind = "int"
    /\ last.out = Raises("ConversionDisabled")

(***************************************************************************)
(* C7.  Equality never fails: two entities are equal iff values and moduli *)
(* are equal; an entity equals a plain integer k iff value == k mod        *)
(* modulus and the conversion is enabled; a != x is the negation of        *)
(* a == x, whatever x is.                                                  *)
(***************************************************************************)
C7_Equality ==
    last.op \in {"__eq__", "__ne__"} =>
        LET flag  == _DISABLE_INT2MINT_CONVERSION
            equal == (last.op = "__eq__") = (last.out.val.n = 1)
        IN  /\ last.out.status = "ok"
            /\ last.out.val.kind = "bool"
            /\ last.arg.kind = "mint" =>
                   (equal <=> /\ last.self.value = last.arg.ent.value
                              /\ last.self.mod = last.arg.ent.mod)
            /\ last.arg.kind = "int" =>
                   (equal <=> /\ last.self.value
                                     = last.arg.n % last.self.mod
                              /\ ~flag)
            /\ last.op = "__ne__" =>
                   last.out.val.n
                       # call("__eq__", last.self, last.arg, flag).val.n

\* an entity was found equal to a plain integer outside [0, modulus)
C7_Witness ==
    /\ last.op = "__eq__"
    /\ last.arg.kind = "int"
    /\ last.arg.n >= last.self.mod
    /\ last.out = Returns(BoolVal(TRUE))

(***************************************************************************)
(* C8.  Between two entities of different moduli, + - * ** / // and the    *)
(* four orderings fail with IncompatibleModulus, whatever the values and   *)
(* the conversion flag.                                                    *)
(***************************************************************************)
ModulusCheckedOps ==
    {"__add__", "__sub__", "__mul__", "__pow__", "__truediv__",
     "__floordiv__", "__lt__", "__le__", "__gt__", "__ge__"}

C8_CrossModulus ==
    (last.op \in ModulusCheckedOps /\ last.arg.kind = "mint"
         /\ last.arg.ent.mod # last.self.mod) =>
        last.out = Raises("IncompatibleModulus")

\* a division by a zero of another modulus was refused for the modulus, with
\* the conversion disabled
C8_Witness ==
    /\ _DISABLE_INT2MINT_CONVERSION
    /\ last.op = "__floordiv__"
    /\ last.arg.kind = "mint"
    /\ last.arg.ent.value = 0
    /\ last.arg.ent.mod # last.self.mod
    /\ last.out = Raises("IncompatibleModulus")

(***************************************************************************)
(* C9.  The flag starts as "conversion allowed" and only the policy calls  *)
(* change it: activate makes it allowed, disable disallowed, change        *)
(* negates it, set(b) makes it b for b in {True, False, 1, 0}, and set     *)
(* with another argument fails and leaves it.  No other call changes it,   *)
(* no call changes an entity that exists, and a call sees the flag as it   *)
(* is when the call is made.                                               *)
(***************************************************************************)
AcceptedPolicyValues == {BoolVal(TRUE), BoolVal(FALSE), IntVal(1), IntVal(0)}

\* the flag after call c, made when the flag was `disabled`
FlagAfter(disabled, c) ==
    CASE c.op = "activate_int2mint" -> FALSE
      [] c.op = "disable_int2mint"  -> TRUE
      [] c.op = "change_int2mint"   -> ~disabled
      [] c.op = "set_int2mint" ->
             IF c.arg \in AcceptedPolicyValues THEN c.arg.n = 0 ELSE disabled
      [] OTHER -> disabled

C9_PolicyFrame ==
    /\ _DISABLE_INT2MINT_CONVERSION = FALSE
    /\ [][/\ _DISABLE_INT2MINT_CONVERSION'
                 = FlagAfter(_DISABLE_INT2MINT_CONVERSION, last')
          /\ heap \subseteq heap'
          /\ (last'.op = "set_int2mint"
                  /\ last'.arg \notin AcceptedPolicyValues) =>
                 last'.out.status # "ok"
          /\ last'.op = "int2mint" =>
                 last'.out
                     = Returns(BoolVal(~_DISABLE_INT2MINT_CONVERSION))
          /\ (last'.op \in GatedOps /\ PlainInt(last'.arg)) =>
                 (last'.out.status = "ConversionDisabled"
                      <=> _DISABLE_INT2MINT_CONVERSION)
         ]_vars

\* the conversion was disabled, entities exist, and a set_int2mint with an
\* argument that is no boolean failed and left it disabled
C9_Witness ==
    /\ _DISABLE_INT2MINT_CONVERSION
    /\ Cardinality(heap) >= 2
    /\ last.op = "set_int2mint"
    /\ last.arg = IntVal(2)
    /\ last.out = Raises("InvalidPolicy")

(***************************************************************************)
(* C10.  Plain integer operands that are not promoted.                     *)
(***************************************************************************)
PassThroughOps ==
    {"__mul__", "__rmul__", "__pow__", "__truediv__", "__floordiv__"}

\* the outcome is what it would be with the flag negated, and is no
\* ConversionDisabled
PolicyIndependent ==
    /\ last.out = call(last.op, last.self, last.arg,
                       ~_DISABLE_INT2MINT_CONVERSION)
    /\ last.out.status # "ConversionDisabled"

\* C10 as written: multiplication, reverse multiplication, power, reverse
\* power, true division and floor division with a plain integer operand have
\* the same outcome whether the conversion is enabled or disabled and never
\* fail with ConversionDisabled.
C10_PassThroughAsWritten ==
    (last.op \in PassThroughOps \cup {"__rpow__"} /\ PlainInt(last.arg)) =>
        PolicyIndependent

\* C10 as amended: multiplication, reverse multiplication, power, true
\* division and floor division take a plain integer operand as a plain
\* integer, with the same outcome whether the conversion is enabled or
\* disabled and never ConversionDisabled; reverse power promotes it: k ** a
\* fails with ConversionDisabled when the conversion is disabled and is
\* (k ** a.value) mod m, of modulus m, when it is enabled.
C10_PassThrough ==
    /\ (last.op \in PassThroughOps /\ PlainInt(last.arg)) =>
           /\ PolicyIndependent
           /\ last.out
                  = method(CASE last.op = "__rmul__" -> "__mul__"
                             [] last.op = "__floordiv__" -> "__truediv__"
                             [] OTHER -> last.op,
                           last.self, IntVal(AsInt(last.arg)))
    /\ (last.op = "__rpow__" /\ PlainInt(last.arg)) =>
           IF _DISABLE_INT2MINT_CONVERSION
           THEN last.out = Raises("ConversionDisabled")
           ELSE last.out
                    = Returns(MintVal(Entity(
                          Power(AsInt(last.arg), last.self.value)
                              % last.self.mod,
                          last.self.mod)))

\* a multiplication by a plain integer succeeded with the conversion disabled
C10_Witness ==
    /\ _DISABLE_INT2MINT_CONVERSION
    /\ last.op = "__mul__"
    /\ last.arg.kind = "int"
    /\ last.arg.n >= 2
    /\ ReturnsEntity(last.out)

====
